---- MODULE Spec2Model ----
(***************************************************************************)
(* ADS-B ingestion pipeline of scripts/parser.py, with the track query of  *)
(* scripts/flights_api.py and the supervisor of launcher.py.               *)
(*                                                                         *)
(* parser.py holds two unmerged revisions of the pipeline, separated by    *)
(* conflict markers:                                                       *)
(*   "Updated upstream": parse_message (FIELD_NAMES), the session tracker  *)
(*       (active_sessions, aircraft_sessions, adsb_messages) and the       *)
(*       buffered reader connect_and_listen;                               *)
(*   "Stashed changes":  parse_message (fixed positions), the flights /    *)
(*       flight_positions / smessages store and the reader main.           *)
(* The connection loop (lines 335-348, 405-407) is common to both.         *)
(* SpecSession is the upstream revision, SpecFlights the stashed one.      *)
(* SpecFramingUpstream and SpecFramingStashed are the two readers byte by  *)
(* byte, SpecDecoder the two decoders on one record, SpecTrack the track   *)
(* query of scripts/flights_api.py on the table the stashed revision       *)
(* fills, and SpecLauncher the process supervisor of launcher.py.          *)
(*                                                                         *)
(* Field texts are TLA+ strings.  A record (one line of the feed) is the   *)
(* sequence of its comma-separated field texts, so str.split(",") is the   *)
(* sequence itself; a blank line is <<"">>.  The bytes a read delivers are  *)
(* looked at only when their record's turn comes, so the state keeps the   *)
(* number of complete records still to process, and the content of a       *)
(* record is an input of the step that processes it.  Timestamps are       *)
(* integers:                                                               *)
(* a datetime is a number of milliseconds since 2024-01-01 00:00:00, the   *)
(* text "%Y-%m-%d %H:%M:%S" of a datetime is its number of whole seconds.  *)
(***************************************************************************)
EXTENDS Integers, Sequences, FiniteSets, TLC

VARIABLES
    pc,                 \* position of the connection loop: connect, recv, lines, sleep
                        \* (stashed revision: start and exited as well)
    pending,            \* complete records of the data read last, not yet processed
    processed,          \* records taken from the feed so far
    active_sessions,    \* parser.py:35  callsign -> <<session_id, last_seen>>
    aircraft_sessions,  \* table aircraft_sessions, in session_id order
    adsb_messages,      \* table adsb_messages, in id order
    flights,            \* table flights, in id order
    flight_positions,   \* table flight_positions, in id order
    smessages,          \* table smessages, in id order
    clock,              \* stashed revision: the wall clock reading taken last, in ms
    fields,             \* stashed revision: `fields` of main, the record decoded last
    schema,             \* the tables the database file has besides those
                        \* initialize_database creates
    delivered,          \* framing: every byte the socket has delivered, in order
    buffer,             \* framing: `buffer` of connect_and_listen
    handed,             \* framing: the records parse_message was given, stripped, in order
    record,             \* decoder: the record given to parse_message
    decoded,            \* decoder: what parse_message returned for it
    track_hex,          \* flights_api.get_track: the path parameter hex
    track_limit,        \* flights_api.get_track: the query parameter limit
    track_result,       \* flights_api.get_track: the list returned
    lpc,                \* launcher: position of each run_process coroutine
    child,              \* launcher: the subprocess each coroutine holds in `process`
    starts              \* launcher: subprocesses each coroutine has started so far

loopVars    == <<pc, pending, processed>>
sessionVars == <<active_sessions, aircraft_sessions, adsb_messages>>
flightVars  == <<flights, flight_positions, smessages, clock, schema, fields>>
frameVars   == <<delivered, buffer, handed>>
decoderVars == <<record, decoded>>
trackVars   == <<track_hex, track_limit, track_result>>
launchVars  == <<lpc, child, starts>>
vars        == <<pc, pending, processed, active_sessions, aircraft_sessions,
                 adsb_messages, flights, flight_positions, smessages,
                 clock, schema, fields, delivered, buffer, handed, record, decoded,
                 track_hex, track_limit, track_result, lpc, child, starts>>

(***************************************************************************)
(* Bounds of the model.                                                    *)
(***************************************************************************)
MaxRecords == 3       \* records the upstream revision takes from the feed in one run
MaxFlightRecords == 2 \* records the stashed revision takes from the feed in one run
MaxElapsed == 2       \* milliseconds the clock of the stashed revision advances in one run
MaxChunkLines == 2    \* records in one network read
MaxStreamLen == 4     \* framing: bytes delivered in one run
MaxChunkLen == 3      \* framing: bytes in one network read
MaxFields == 24       \* decoder: comma-separated fields in one record
MaxTrackRows == 3     \* get_track: rows of flight_positions when it is queried
MaxStarts == 2        \* launcher: subprocesses one coroutine starts in one run

(***************************************************************************)
(* Python values and string methods, on the texts the model feeds.         *)
(***************************************************************************)
None == 0             \* no session id / no row id (rowids start at 1)
NULL == "<NULL>"      \* an SQL NULL column

Range(s) == {s[i] : i \in DOMAIN s}

\* str.strip(): leading and trailing whitespace removed
strip(s) ==
    CASE s = " "        -> ""
      [] s = "  "       -> ""
      [] s = "UAL123  " -> "UAL123"
      [] s = " a1b2c3"  -> "a1b2c3"
      [] s = "0\r"      -> "0"
      [] OTHER          -> s

\* str.lstrip() / str.rstrip(), as line.strip() acts on the first and the
\* last field of a record
lstrip(s) ==
    CASE s = " "        -> ""
      [] s = "  "       -> ""
      [] s = " a1b2c3"  -> "a1b2c3"
      [] OTHER          -> s

rstrip(s) ==
    CASE s = " "        -> ""
      [] s = "  "       -> ""
      [] s = "UAL123  " -> "UAL123"
      [] s = "0\r"      -> "0"
      [] OTHER          -> s

\* str.upper()
upper(s) ==
    CASE s = "a1b2c3"   -> "A1B2C3"
      [] s = " a1b2c3"  -> " A1B2C3"
      [] s = "4ca7b5"   -> "4CA7B5"
      [] OTHER          -> s

\* line.strip().split(","): the record's fields, the whole line stripped
split_stripped(line) ==
    [i \in 1..Len(line) |->
        IF i = 1 /\ i = Len(line) THEN strip(line[i])
        ELSE IF i = 1 THEN lstrip(line[i])
        ELSE IF i = Len(line) THEN rstrip(line[i])
        ELSE line[i]]

(***************************************************************************)
(* Dates and times.                                                        *)
(***************************************************************************)
ValueError == -1

\* datetime.strptime(date + " " + time, "%Y/%m/%d %H:%M:%S.%f"), in
\* milliseconds; ValueError when the text does not match the format (the
\* fraction ".%f" is required)
strptime(date, time) ==
    IF date # "2024/01/01" THEN ValueError
    ELSE CASE time = "00:00:00.000" -> 0
           [] time = "00:00:00.500" -> 500
           [] time = "00:20:00.000" -> 1200000
           [] time = "00:20:00.500" -> 1200500
           [] time = "00:20:01.000" -> 1201000
           [] time = "00:40:01.000" -> 2401000
           [] OTHER                 -> ValueError

\* dt.strftime("%Y-%m-%d %H:%M:%S"): the fraction of the second is dropped
strftime(dt) == dt \div 1000

\* datetime.fromisoformat(ts)
fromisoformat(ts) == ts * 1000

\* readings of datetime.now()
NowChoices == {1201500, 2402000}

(***************************************************************************)
(* parser.py, upstream revision: decoder.                                  *)
(***************************************************************************)
FIELD_NAMES ==
    << "mtype", "ttype", "sid", "aid", "hex", "flight", "date", "time",
       "callsign", "alt", "gspeed", "heading", "lat", "lon",
       "vrate", "squawk", "alert", "emergency", "spi", "grounded" >>

\* enumerate(FIELD_NAMES): the position each name is read from
FieldIndex ==
    [name \in Range(FIELD_NAMES) |-> CHOOSE k \in 1..Len(FIELD_NAMES) : FIELD_NAMES[k] = name]

\* parse_message (upstream): FIELD_NAMES[i] is read from position i
parse_message_upstream(line) ==
    LET parts == split_stripped(line)
        at(name) == IF FieldIndex[name] <= Len(parts) THEN parts[FieldIndex[name]] ELSE ""
    IN  [name \in Range(FIELD_NAMES) \cup {"datel", "timel"} |->
            IF name = "datel" THEN at("date")
            ELSE IF name = "timel" THEN at("time")
            ELSE at(name)]

(***************************************************************************)
(* parser.py, upstream revision: session tracker.                          *)
(* A store call either completes or raises sqlite3.Error; `fault` names    *)
(* the store call of this record that raises: "session" (the write of      *)
(* create_new_session / update_session_last_seen), "message" (the insert   *)
(* into adsb_messages) or "none".  A call that raises persists nothing.    *)
(***************************************************************************)
SESSION_TIMEOUT_SEC == 20 * 60

Faults == {"none", "session", "message"}

\* d[key] = value on a Python dict
Put(d, key, value) ==
    [k \in DOMAIN d \cup {key} |-> IF k = key THEN value ELSE d[k]]

\* mutant of timed_out: the gap test made inclusive (>=)
timed_out_inclusive(last_seen_ts, now_iso) ==
    fromisoformat(now_iso) - fromisoformat(last_seen_ts) >= SESSION_TIMEOUT_SEC * 1000

\* timedelta.total_seconds() of dt_now - dt_last exceeds the timeout
timed_out(last_seen_ts, now_iso) ==
    fromisoformat(now_iso) - fromisoformat(last_seen_ts) > SESSION_TIMEOUT_SEC * 1000

\* mutant of create_new_session: INSERT OR REPLACE keyed on the callsign,
\* the earlier rows of the callsign are deleted
create_new_session_replacing(callsign, icao_hex, now_iso, fault, S, A) ==
    IF fault = "session"
    THEN [session_id |-> None, S |-> S, A |-> A, raised |-> TRUE]
    ELSE LET session_id == Len(S) + 1
             kept       == SelectSeq(S, LAMBDA row : row.callsign # callsign)
         IN  [session_id |-> session_id,
              S |-> Append(kept, [session_id |-> session_id,
                                  callsign   |-> callsign,
                                  icao_hex   |-> icao_hex,
                                  first_seen |-> now_iso,
                                  last_seen  |-> now_iso]),
              A |-> Put(A, callsign, <<session_id, now_iso>>),
              raised |-> FALSE]

\* mutant of create_new_session: the index entry is not replaced
create_new_session_no_index(callsign, icao_hex, now_iso, fault, S, A) ==
    IF fault = "session"
    THEN [session_id |-> None, S |-> S, A |-> A, raised |-> TRUE]
    ELSE LET session_id == Len(S) + 1
         IN  [session_id |-> session_id,
              S |-> Append(S, [session_id |-> session_id,
                               callsign   |-> callsign,
                               icao_hex   |-> icao_hex,
                               first_seen |-> now_iso,
                               last_seen  |-> now_iso]),
              A |-> IF callsign \in DOMAIN A THEN A
                    ELSE Put(A, callsign, <<session_id, now_iso>>),
              raised |-> FALSE]

\* create_new_session: INSERT, lastrowid, commit, then the index entry
create_new_session(callsign, icao_hex, now_iso, fault, S, A) ==
    IF fault = "session"
    THEN [session_id |-> None, S |-> S, A |-> A, raised |-> TRUE]
    ELSE LET session_id == Len(S) + 1
         IN  [session_id |-> session_id,
              S |-> Append(S, [session_id |-> session_id,
                               callsign   |-> callsign,
                               icao_hex   |-> icao_hex,
                               first_seen |-> now_iso,
                               last_seen  |-> now_iso]),
              A |-> Put(A, callsign, <<session_id, now_iso>>),
              raised |-> FALSE]

\* mutant of update_session_last_seen: the UPDATE sets the wrong column
update_session_last_seen_first(session_id, now_iso, S) ==
    [i \in 1..Len(S) |->
        IF S[i].session_id = session_id
        THEN [S[i] EXCEPT !.first_seen = now_iso]
        ELSE S[i]]

\* mutant of update_session_last_seen: the UPDATE without its WHERE clause
update_session_last_seen_all(session_id, now_iso, S) ==
    [i \in 1..Len(S) |-> [S[i] EXCEPT !.last_seen = now_iso]]

\* update_session_last_seen: UPDATE ... SET last_seen = ? WHERE session_id = ?
update_session_last_seen(session_id, now_iso, S) ==
    [i \in 1..Len(S) |->
        IF S[i].session_id = session_id
        THEN [S[i] EXCEPT !.last_seen = now_iso]
        ELSE S[i]]

\* mutant of get_or_create_session: the index entry is not refreshed when
\* the session is continued
get_or_create_session_stale_index(parsed, now_iso, fault, S, A) ==
    LET callsign == strip(parsed.callsign)
        icao     == upper(strip(parsed.hex))
    IN  IF callsign = ""
        THEN [session_id |-> None, S |-> S, A |-> A, raised |-> FALSE]
        ELSE IF callsign \in DOMAIN A
        THEN LET session_id   == A[callsign][1]
                 last_seen_ts == A[callsign][2]
             IN  IF timed_out(last_seen_ts, now_iso)
                 THEN create_new_session(callsign, icao, now_iso, fault, S, A)
                 ELSE IF fault = "session"
                 THEN [session_id |-> None, S |-> S, A |-> A, raised |-> TRUE]
                 ELSE [session_id |-> session_id,
                       S |-> update_session_last_seen(session_id, now_iso, S),
                       A |-> A,
                       raised |-> FALSE]
        ELSE create_new_session(callsign, icao, now_iso, fault, S, A)

\* mutant of get_or_create_session: no test for the blank callsign
get_or_create_session_blank_keyed(parsed, now_iso, fault, S, A) ==
    LET callsign == strip(parsed.callsign)
        icao     == upper(strip(parsed.hex))
    IN  IF callsign \in DOMAIN A
        THEN LET session_id   == A[callsign][1]
                 last_seen_ts == A[callsign][2]
             IN  IF timed_out(last_seen_ts, now_iso)
                 THEN create_new_session(callsign, icao, now_iso, fault, S, A)
                 ELSE IF fault = "session"
                 THEN [session_id |-> None, S |-> S, A |-> A, raised |-> TRUE]
                 ELSE [session_id |-> session_id,
                       S |-> update_session_last_seen(session_id, now_iso, S),
                       A |-> Put(A, callsign, <<session_id, now_iso>>),
                       raised |-> FALSE]
        ELSE create_new_session(callsign, icao, now_iso, fault, S, A)

\* get_or_create_session
get_or_create_session(parsed, now_iso, fault, S, A) ==
    LET callsign == strip(parsed.callsign)
        icao     == upper(strip(parsed.hex))
    IN  IF callsign = ""
        THEN [session_id |-> None, S |-> S, A |-> A, raised |-> FALSE]
        ELSE IF callsign \in DOMAIN A
        THEN LET session_id   == A[callsign][1]
                 last_seen_ts == A[callsign][2]
             IN  IF timed_out(last_seen_ts, now_iso)
                 THEN create_new_session(callsign, icao, now_iso, fault, S, A)
                 ELSE IF fault = "session"
                 THEN [session_id |-> None, S |-> S, A |-> A, raised |-> TRUE]
                 ELSE [session_id |-> session_id,
                       S |-> update_session_last_seen(session_id, now_iso, S),
                       A |-> Put(A, callsign, <<session_id, now_iso>>),
                       raised |-> FALSE]
        ELSE create_new_session(callsign, icao, now_iso, fault, S, A)

\* the timestamp insert_message gives a record: its date and time when they
\* parse, the wall clock otherwise
ts_iso_of(parsed, now) ==
    LET dt == strptime(parsed.date, parsed.time)
    IN  strftime(IF dt = ValueError THEN now ELSE dt)

\* the adsb_messages row of a record
message_row(id, session_id, ts_iso, parsed) ==
    [id |-> id, session_id |-> session_id, ts |-> ts_iso,
     mtype |-> parsed.mtype, ttype |-> parsed.ttype, flight |-> parsed.flight,
     date |-> parsed.date, time |-> parsed.time,
     datel |-> parsed.datel, timel |-> parsed.timel,
     callsign |-> parsed.callsign, alt |-> parsed.alt, gspeed |-> parsed.gspeed,
     heading |-> parsed.heading, lat |-> parsed.lat, lon |-> parsed.lon,
     squawk |-> parsed.squawk, alert |-> parsed.alert, grounded |-> parsed.grounded]

\* mutant of insert_message: no return when the record has no session
insert_message_logs_unassigned(parsed, now, fault, S, A, M) ==
    IF parsed.flight = "111111" /\ strip(parsed.callsign) = ""
    THEN [S |-> S, A |-> A, M |-> M, raised |-> FALSE]
    ELSE LET ts_iso == ts_iso_of(parsed, now)
             g      == get_or_create_session(parsed, ts_iso, fault, S, A)
         IN  IF g.raised
             THEN [S |-> g.S, A |-> g.A, M |-> M, raised |-> TRUE]
             ELSE IF fault = "message"
             THEN [S |-> g.S, A |-> g.A, M |-> M, raised |-> TRUE]
             ELSE [S |-> g.S, A |-> g.A,
                   M |-> Append(M, message_row(Len(M) + 1, g.session_id, ts_iso, parsed)),
                   raised |-> FALSE]

\* insert_message (upstream): filter, timestamp, session, message row
insert_message(parsed, now, fault, S, A, M) ==
    IF parsed.flight = "111111" /\ strip(parsed.callsign) = ""
    THEN [S |-> S, A |-> A, M |-> M, raised |-> FALSE]
    ELSE LET ts_iso == ts_iso_of(parsed, now)
             g      == get_or_create_session(parsed, ts_iso, fault, S, A)
         IN  IF g.raised
             THEN [S |-> g.S, A |-> g.A, M |-> M, raised |-> TRUE]
             ELSE IF g.session_id = None
             THEN [S |-> g.S, A |-> g.A, M |-> M, raised |-> FALSE]
             ELSE IF fault = "message"
             THEN [S |-> g.S, A |-> g.A, M |-> M, raised |-> TRUE]
             ELSE [S |-> g.S, A |-> g.A,
                   M |-> Append(M, message_row(Len(M) + 1, g.session_id, ts_iso, parsed)),
                   raised |-> FALSE]

(***************************************************************************)
(* The feed.  SbsLine lays the fields out in the positions of the wire     *)
(* format (22 fields, 0-indexed in the comments).                          *)
(***************************************************************************)
SbsLine(mtype, hex, flight, time, f8, callsign, alt, gspeed, heading, lat, lon, grounded) ==
    << mtype, "3", "1", "1", hex, flight, "2024/01/01", time,   \* 0..7
       f8, time,                                                \* 8, 9
       callsign, alt, gspeed, heading, lat, lon,                \* 10..15
       "", "", "", "", "", grounded >>                          \* 16..21

\* records fed to the upstream revision; it reads its callsign at position 8
SessionLine(hex, flight, time, f8) ==
    SbsLine("MSG", hex, flight, time, f8, "", "35000", "450", "90", "40.1", "-75.2", "0")

SessionFeed ==
    { SessionLine("a1b2c3", "1", "00:00:00.000", "UAL123"),
      SessionLine("A1B2C3", "1", "00:20:00.000", "UAL123"),
      SessionLine("A1B2C3", "1", "00:20:01.000", "UAL123"),
      SessionLine("A1B2C3", "1", "00:20:00.500", "UAL123  "),
      SessionLine("4CA7B5", "1", "00:00:00.000", "DAL45"),
      SessionLine("4CA7B5", "1", "00:20:01.000", " "),
      SessionLine("4CA7B5", "111111", "00:00:00.000", ""),
      SessionLine("A1B2C3", "1", "00:00:00", "UAL123"),
      SbsLine("STA", "4CA7B5", "1", "00:00:00.000", "DAL45",
              "", "", "", "", "", "", ""),
      <<"">> }

\* the wall clock readings that matter to a record: all of them when its
\* date and time do not parse, one otherwise (it is not read)
NowFor(line) ==
    LET parts == split_stripped(line)
    IN  IF Len(parts) >= 8 /\ strptime(parts[7], parts[8]) # ValueError
        THEN {CHOOSE n \in NowChoices : TRUE}
        ELSE NowChoices

(***************************************************************************)
(* The connection loop, parser.py:335-348 and 405-407 (both revisions).    *)
(***************************************************************************)
EmptyDict == [k \in {} |-> <<>>]

\* nothing decoded, no query made, no coroutine of the launcher started
NoResult == [status |-> "none"]

IdleDecoder == record = <<>> /\ decoded = NoResult
IdleTrack   == track_hex = "" /\ track_limit = 0 /\ track_result = NoResult
IdleLaunch  == lpc = <<>> /\ child = <<>> /\ starts = <<>>

\* the tables the source reads or writes and never creates: the CREATE TABLE
\* statements of initialize_database, parser.py:44-93, are those of flights
\* (stashed) or aircraft_sessions (upstream) and of adsb_messages
OTHER_TABLES == {"flight_positions", "smessages"}

\* int(time.time() * 1000) when the run starts
ClockStart == 1000

InitLoop ==
    /\ IdleDecoder
    /\ IdleTrack
    /\ IdleLaunch
    /\ pending = 0
    /\ processed = 0
    /\ active_sessions = EmptyDict
    /\ aircraft_sessions = <<>>
    /\ adsb_messages = <<>>
    /\ flights = <<>>
    /\ flight_positions = <<>>
    /\ smessages = <<>>
    /\ clock = ClockStart
    /\ delivered = <<>>
    /\ buffer = <<>>
    /\ handed = <<>>

\* the upstream revision: connect_and_listen is entered
InitCommon ==
    /\ InitLoop
    /\ pc = "connect"
    /\ schema = {}
    /\ fields = NoResult

\* the stashed revision: the module is run as a script (start), or main is
\* called
InitFlights ==
    /\ InitLoop
    /\ pc \in {"start", "connect"}
    /\ schema = {}
    /\ fields = NoResult

\* s.connect((HOST, PORT)) succeeds; buffer = b""
Connect ==
    /\ pc = "connect"
    /\ pc' = "recv"
    /\ pending' = 0
    /\ UNCHANGED <<processed, sessionVars, flightVars, frameVars,
                 decoderVars, trackVars, launchVars>>

\* s.connect raises: except Exception, line 405
ConnectFail ==
    /\ pc = "connect"
    /\ pc' = "sleep"
    /\ UNCHANGED <<pending, processed, sessionVars, flightVars, frameVars,
                 decoderVars, trackVars, launchVars>>

\* s.recv raises (reset, timeout): except Exception, line 405
RecvError ==
    /\ pc = "recv"
    /\ pc' = "sleep"
    /\ UNCHANGED <<pending, processed, sessionVars, flightVars, frameVars,
                 decoderVars, trackVars, launchVars>>

\* s.recv returns b"": the peer closed; break, and the outer loop goes round
RecvEmpty ==
    /\ pc = "recv"
    /\ pc' = "connect"
    /\ UNCHANGED <<pending, processed, sessionVars, flightVars, frameVars,
                 decoderVars, trackVars, launchVars>>

\* time.sleep(3) returns, line 407
Sleep ==
    /\ pc = "sleep"
    /\ pc' = "connect"
    /\ UNCHANGED <<pending, processed, sessionVars, flightVars, frameVars,
                 decoderVars, trackVars, launchVars>>

\* s.recv returns data holding n complete records (n = 0: part of one)
Recv(n) ==
    /\ pc = "recv"
    /\ pending' = n
    /\ pc' = IF n = 0 THEN "recv" ELSE "lines"
    /\ UNCHANGED <<processed, sessionVars, flightVars, frameVars,
                 decoderVars, trackVars, launchVars>>

(***************************************************************************)
(* Upstream revision: connect_and_listen, lines 344-359.                   *)
(***************************************************************************)
\* parsed = parse_message(text), for each record of the feed
ParsedFeed == [line \in SessionFeed |-> parse_message_upstream(line)]

\* what processing `line` does to the store: parse_message and
\* insert_message, under the per-line try/except of lines 354-359
session_step(line, now, fault) ==
    insert_message(ParsedFeed[line], now, fault,
                   aircraft_sessions, active_sessions, adsb_messages)

\* one turn of `while b"\n" in buffer`
LineSession(line, now, fault) ==
    /\ pc = "lines"
    /\ pending > 0
    /\ processed < MaxRecords
    /\ processed' = processed + 1
    /\ LET r == session_step(line, now, fault)
       IN  /\ aircraft_sessions' = r.S
           /\ active_sessions' = r.A
           /\ adsb_messages' = r.M
    /\ pending' = pending - 1
    /\ pc' = IF pending = 1 THEN "recv" ELSE "lines"
    /\ UNCHANGED <<flightVars, frameVars, decoderVars, trackVars, launchVars>>

NextSession ==
    \/ Connect
    \/ ConnectFail
    \/ RecvError
    \/ RecvEmpty
    \/ Sleep
    \/ \E n \in 0..MaxChunkLines : Recv(n)
    \/ \E line \in SessionFeed : \E now \in NowFor(line), fault \in Faults :
          LineSession(line, now, fault)

SpecSession == InitCommon /\ [][NextSession]_vars

(***************************************************************************)
(* parser.py, stashed revision: decoder and reader main, as they are in    *)
(* the source.  The revision defines its reader as main, and line 415      *)
(* calls connect_and_listen, which only the upstream revision defines: run *)
(* as a script the process ends there with NameError.  main itself, when   *)
(* called, reads, splits and decodes, and for a MSG record calls           *)
(* get_or_create_flight(conn, hexcode) (line 375), a name the source does  *)
(* not define: NameError, caught by the handler of line 405.  The          *)
(* statements after it (update_flight_fields, the insert into smessages,   *)
(* conn.commit()) are never reached.  The UPDATE of flights and the insert *)
(* into flight_positions (lines 230-281) sit inside insert_message, which  *)
(* nothing in the revision calls, after its returns and with `fields` and  *)
(* `flight_id` undefined; no statement of the source creates the tables    *)
(* flight_positions and smessages.  The tables flights, flight_positions   *)
(* and smessages are therefore as initialize_database leaves them.         *)
(***************************************************************************)
\* what the clock advanced, in ms, since the reading before
ClockTicks == {0, 1}

\* the reading taken d ms after the reading c
reading(c, d) == IF c + d <= ClockStart + MaxElapsed THEN c + d ELSE c

\* list[i] on a Python list, i counted from 0: IndexError past the end
IndexError == "<IndexError>"

index(parts, i) == IF i + 1 <= Len(parts) THEN parts[i + 1] ELSE IndexError

\* mutant of pad: the padding stops one field short
pad_short(parts) == parts \o [i \in 1..(21 - Len(parts)) |-> ""]

\* while len(parts) < 22: parts.append("")
pad(parts) == parts \o [i \in 1..(22 - Len(parts)) |-> ""]

\* parse_message (stashed): pad to 22 parts, then fixed positions;
\* `now` is int(time.time() * 1000)
parse_message_stashed(raw, now) ==
    LET parts == pad(split_stripped(raw))
        at(i) == index(parts, i)
    IN  [mtype |-> at(0), ttype |-> at(1), hex |-> upper(strip(at(4))),
         timestamp |-> now, flight |-> at(5), date |-> at(6), time |-> at(7),
         callsign |-> at(10), alt |-> at(11), gspeed |-> at(12),
         heading |-> at(13), lat |-> at(14), lon |-> at(15), grounded |-> at(21)]

FlightLine(hex, callsign, alt, gspeed, heading, lat, lon, grounded) ==
    SbsLine("MSG", hex, "1", "00:00:00.000", "2024/01/01",
            callsign, alt, gspeed, heading, lat, lon, grounded)

FlightFeed ==
    { FlightLine("a1b2c3", "UAL123", "35000", "450", "90", "40.1", "-75.2", "0"),
      FlightLine("A1B2C3", "", "36000", "", "", "", "", ""),
      FlightLine("A1B2C3", "", "", "", "", "40.2", "", ""),
      FlightLine("A1B2C3", "", "", "", "", "", "-75.3", ""),
      FlightLine("A1B2C3", "DAL45", "", "", "", "", "", "1"),
      FlightLine(" a1b2c3", " ", "", "460", "95", "40.2", "-75.3", ""),
      FlightLine("4CA7B5", "DAL45", "36000", "460", "95", "40.2", "-75.3", "1"),
      SbsLine("STA", "A1B2C3", "1", "00:00:00.000", "2024/01/01",
              "DAL45", "36000", "460", "95", "40.2", "-75.3", "1"),
      <<"MSG", "3", "1", "1", "a1b2c3">>,
      <<"">> }

\* fields = parse_message(raw) for each record of the feed, the clock reading
\* left out
ParsedFlightFeed == [raw \in FlightFeed |-> parse_message_stashed(raw, None)]

\* fields = parse_message(raw), parser.py:365, when the clock reads `now`
parsed_at(raw, now) == [ParsedFlightFeed[raw] EXCEPT !.timestamp = now]

\* the body of `for raw in data.decode(errors="ignore").splitlines()`,
\* parser.py:361-402: the tables, the clock reading taken last and the local
\* `fields` after it, and the name whose call raised NameError
flights_body(raw, tick, F, P, SM, clk, last) ==
    LET t312   == reading(clk, tick)
        parsed == parsed_at(raw, t312)
    IN  IF Len(raw) = 1 /\ strip(raw[1]) = ""                 \* if not raw.strip(): continue
        THEN [F |-> F, P |-> P, SM |-> SM, clock |-> clk, fields |-> last,
              raised |-> "none"]
        ELSE IF parsed.mtype # "MSG"                           \* continue
        THEN [F |-> F, P |-> P, SM |-> SM, clock |-> t312, fields |-> parsed,
              raised |-> "none"]
        ELSE [F |-> F, P |-> P, SM |-> SM, clock |-> t312, fields |-> parsed,
              raised |-> "get_or_create_flight"]               \* NameError, line 375

flights_step(raw, tick) ==
    flights_body(raw, tick, flights, flight_positions, smessages, clock, fields)

\* one turn of the for loop; an exception leaves the loop, the inner while
\* and the with block for the handler of line 405
LineFlights(raw, tick) ==
    /\ pc = "lines"
    /\ pending > 0
    /\ processed < MaxFlightRecords
    /\ processed' = processed + 1
    /\ LET r == flights_step(raw, tick)
       IN  /\ flights' = r.F
           /\ flight_positions' = r.P
           /\ smessages' = r.SM
           /\ clock' = r.clock
           /\ fields' = r.fields
           /\ pending' = IF r.raised # "none" THEN 0 ELSE pending - 1
           /\ pc' = IF r.raised # "none" THEN "sleep"
                    ELSE IF pending = 1 THEN "recv" ELSE "lines"
    /\ UNCHANGED <<schema, sessionVars, frameVars, decoderVars, trackVars, launchVars>>

\* if __name__ == "__main__": initialize_database(); connect_and_listen(),
\* parser.py:413-415: the tables are created if they are not there, then the
\* call raises NameError and the process ends
Launch ==
    /\ pc = "start"
    /\ pc' = "exited"
    /\ UNCHANGED <<pending, processed, sessionVars, flightVars, frameVars,
                   decoderVars, trackVars, launchVars>>

NextFlights ==
    \/ Launch
    \/ Connect
    \/ ConnectFail
    \/ RecvError
    \/ RecvEmpty
    \/ Sleep
    \/ \E n \in 0..MaxChunkLines : Recv(n)
    \/ \E raw \in FlightFeed, tick \in ClockTicks : LineFlights(raw, tick)

SpecFlights == InitFlights /\ [][NextFlights]_vars

(***************************************************************************)
(* Framing, byte by byte.  A byte is its number; a text is the sequence of *)
(* its code points.                                                        *)
(*   upstream, parser.py:351-356: buffer += data, then every line before a *)
(*       b"\n" is decoded (errors="replace") and handed to parse_message;  *)
(*   stashed, parser.py:361-365: each chunk is decoded on its own          *)
(*       (errors="ignore"), cut by str.splitlines(), and every line that   *)
(*       is not blank is handed to parse_message.                          *)
(***************************************************************************)
LF == 10
CR == 13
SPACE == 32
LETTER == 97          \* "a"
BAD == 255            \* a byte that is no UTF-8
REPLACEMENT == 65533  \* U+FFFD

Bytes == {LF, CR, SPACE, LETTER, BAD}

\* the byte strings of length lo..hi
RECURSIVE ByteStrings(_, _)
ByteStrings(lo, hi) ==
    IF hi = 0 THEN {<<>>}
    ELSE LET shorter == ByteStrings(0, hi - 1)
             longest == {Append(b, x) : b \in {y \in shorter : Len(y) = hi - 1}, x \in Bytes}
         IN  {b \in shorter \cup longest : Len(b) >= lo}

\* bytes.decode(errors="replace") / bytes.decode(errors="ignore")
decode_replace(bytes) == [i \in 1..Len(bytes) |-> IF bytes[i] = BAD THEN REPLACEMENT ELSE bytes[i]]
decode_ignore(bytes)  == SelectSeq(bytes, LAMBDA b : b # BAD)

\* str.strip() == "": nothing but whitespace
is_blank(text) == \A i \in 1..Len(text) : text[i] \in {LF, CR, SPACE}

\* str.strip() on a text: the first statement of parse_message
strip_text(text) ==
    LET keep == {i \in 1..Len(text) : text[i] \notin {LF, CR, SPACE}}
    IN  IF keep = {} THEN <<>>
        ELSE SubSeq(text, CHOOSE i \in keep : \A j \in keep : i <= j,
                          CHOOSE i \in keep : \A j \in keep : i >= j)

\* the index of the first x in s, 0 when there is none
first_index(s, x) ==
    IF \E i \in 1..Len(s) : s[i] = x
    THEN CHOOSE i \in 1..Len(s) : s[i] = x /\ \A j \in 1..i - 1 : s[j] # x
    ELSE 0

\* while b"\n" in buffer: line, buffer = buffer.split(b"\n", 1); the lines
\* taken, as parse_message reads them, and what stays in the buffer
RECURSIVE take_lines(_)
take_lines(buf) ==
    LET i == first_index(buf, LF)
    IN  IF i = 0 THEN [lines |-> <<>>, rest |-> buf]
        ELSE LET t == take_lines(SubSeq(buf, i + 1, Len(buf)))
             IN  [lines |-> <<strip_text(decode_replace(SubSeq(buf, 1, i - 1)))>> \o t.lines,
                  rest  |-> t.rest]

\* str.splitlines(): cut after "\n", "\r" and "\r\n", the breaks dropped, no
\* empty last line
RECURSIVE splitlines(_)
splitlines(text) ==
    IF text = <<>> THEN <<>>
    ELSE LET brk == {i \in 1..Len(text) : text[i] \in {LF, CR}}
         IN  IF brk = {} THEN <<text>>
             ELSE LET i == CHOOSE k \in brk : \A j \in brk : k <= j
                      n == IF text[i] = CR /\ i < Len(text) /\ text[i + 1] = LF
                           THEN i + 1 ELSE i
                  IN  <<SubSeq(text, 1, i - 1)>> \o splitlines(SubSeq(text, n + 1, Len(text)))

\* the records the stashed loop hands to parse_message for one chunk
frame_stashed(data) ==
    LET raws == SelectSeq(splitlines(decode_ignore(data)), LAMBDA raw : ~is_blank(raw))
    IN  [i \in 1..Len(raws) |-> strip_text(raws[i])]

InitFraming == InitCommon

\* upstream: one recv and the lines it completes
RecvUpstream(data) ==
    /\ Len(delivered) + Len(data) <= MaxStreamLen
    /\ delivered' = delivered \o data
    /\ LET t == take_lines(buffer \o data)
       IN  /\ buffer' = t.rest
           /\ handed' = handed \o t.lines
    /\ UNCHANGED <<loopVars, sessionVars, flightVars, decoderVars, trackVars, launchVars>>

\* stashed: one recv and the lines of that chunk
RecvStashed(data) ==
    /\ Len(delivered) + Len(data) <= MaxStreamLen
    /\ delivered' = delivered \o data
    /\ handed' = handed \o frame_stashed(data)
    /\ UNCHANGED <<buffer, loopVars, sessionVars, flightVars,
                 decoderVars, trackVars, launchVars>>

NextFramingUpstream == \E data \in ByteStrings(1, MaxChunkLen) : RecvUpstream(data)
NextFramingStashed  == \E data \in ByteStrings(1, MaxChunkLen) : RecvStashed(data)

SpecFramingUpstream == InitFraming /\ [][NextFramingUpstream]_vars
SpecFramingStashed  == InitFraming /\ [][NextFramingStashed]_vars

(***************************************************************************)
(* The decoders on their own: parse_message of either revision applied to  *)
(* one record.  The records are a full line of the wire format, cut after  *)
(* any number of fields or carrying fields past the last one, with the     *)
(* aircraft identifier in several spellings.                               *)
(***************************************************************************)
\* one text per position of the wire format, all different
WIRE_SAMPLE ==
    << "MSG", "3", "5", "7", "4CA7B5", "9", "2024/01/01", "00:00:00.000",   \* 0..7
       "2024/01/02", "00:00:00.500",                                       \* 8, 9
       "UAL123", "35000", "450", "90", "40.1", "-75.2",                    \* 10..15
       "-64", "7000", "alert", "emerg", "spi", "ground" >>                 \* 16..21

DecoderLine(n, hex) ==
    [i \in 1..n |-> IF i = 5 THEN hex
                    ELSE IF i <= Len(WIRE_SAMPLE) THEN WIRE_SAMPLE[i]
                    ELSE "extra"]

DecoderFeed ==
    {DecoderLine(n, hex) : n \in 1..MaxFields, hex \in {"4CA7B5", "4ca7b5", " a1b2c3"}}
        \cup {<<"">>, <<" ">>}

\* readings of int(time.time() * 1000)
DecoderClock == {1000, 2000}

\* the positions parse_message (stashed) reads, parser.py:309-322
STASHED_POSITIONS == {0, 1, 4, 5, 6, 7, 10, 11, 12, 13, 14, 15, 21}

InitDecoder ==
    /\ record \in DecoderFeed
    /\ decoded = NoResult
    /\ IdleTrack
    /\ IdleLaunch
    /\ pc = "connect"
    /\ pending = 0
    /\ processed = 0
    /\ active_sessions = EmptyDict
    /\ aircraft_sessions = <<>>
    /\ adsb_messages = <<>>
    /\ flights = <<>>
    /\ flight_positions = <<>>
    /\ smessages = <<>>
    /\ clock = ClockStart
    /\ schema = {}
    /\ fields = NoResult
    /\ delivered = <<>>
    /\ buffer = <<>>
    /\ handed = <<>>

\* parse_message(text) of the upstream revision returns
ParseUpstream ==
    /\ decoded = NoResult
    /\ decoded' = [status |-> "returned", variant |-> "upstream",
                   fields |-> parse_message_upstream(record)]
    /\ UNCHANGED <<record, loopVars, sessionVars, flightVars, frameVars,
                   trackVars, launchVars>>

\* parse_message(raw) of the stashed revision returns, or raises IndexError
\* at the first parts[i] past the end of the list
ParseStashed(now) ==
    /\ decoded = NoResult
    /\ decoded' =
          IF \E i \in STASHED_POSITIONS : index(pad(split_stripped(record)), i) = IndexError
          THEN [status |-> "raised", variant |-> "stashed", error |-> IndexError]
          ELSE [status |-> "returned", variant |-> "stashed",
                fields |-> parse_message_stashed(record, now)]
    /\ UNCHANGED <<record, loopVars, sessionVars, flightVars, frameVars,
                   trackVars, launchVars>>

NextDecoder ==
    \/ ParseUpstream
    \/ \E now \in DecoderClock : ParseStashed(now)

SpecDecoder == InitDecoder /\ [][NextDecoder]_vars

(***************************************************************************)
(* flights_api.py: get_track, a query on the table flight_positions of the *)
(* file ./data/flightsdata.db.  The API creates no table, and neither      *)
(* revision of parser.py creates or fills flight_positions: on the file as *)
(* the source makes it the table is missing and the query raises           *)
(* sqlite3.OperationalError.  A file that has the table was given it by    *)
(* something other than the source; its rows are then any rows of the      *)
(* columns the query names, equal timestamps included, a latitude of its   *)
(* own in each row.                                                        *)
(***************************************************************************)
LAT_SAMPLE == <<"40.1", "40.2", "40.3", "40.4", "40.5">>

\* a row of the columns of SELECT lat, lon, heading, timestamp ... WHERE hex
TrackRow(i, hex, timestamp) ==
    [hex |-> hex, timestamp |-> timestamp, lat |-> LAT_SAMPLE[i], lon |-> "-75.2",
     heading |-> "90"]

TrackTables ==
    UNION {{[i \in 1..n |-> TrackRow(i, hexes[i], times[i])] :
               hexes \in [1..n -> {"A1B2C3", "4CA7B5"}],
               times \in [1..n -> {1000, 2000}]} : n \in 0..MaxTrackRows}

\* hex: str, the path parameter; limit: int = 300, the query parameter
TrackHexes  == {"A1B2C3", "4CA7B5", "a1b2c3"}
TrackLimits == (-1..MaxTrackRows) \cup {300}

\* WHERE hex = ?  (the rowids of the rows selected)
matching(P, hex) == {i \in DOMAIN P : P[i].hex = hex}

\* ORDER BY timestamp DESC: every order of the rows that puts no row before
\* one of a larger timestamp (SQL fixes no order among equal timestamps)
orders_desc(P, idx) ==
    {o \in [1..Cardinality(idx) -> idx] :
        /\ \A a, b \in DOMAIN o : a # b => o[a] # o[b]
        /\ \A a, b \in DOMAIN o : a < b => P[o[a]].timestamp >= P[o[b]].timestamp}

\* LIMIT ?: the first `limit` rows; SQLite reads a negative limit as none
limited(o, limit) ==
    IF limit < 0 \/ limit >= Len(o) THEN o ELSE SubSeq(o, 1, limit)

\* dict(r) of SELECT lat, lon, heading, timestamp
track_dict(row) ==
    [lat |-> row.lat, lon |-> row.lon, heading |-> row.heading, timestamp |-> row.timestamp]

\* reversed(...)
reversed(s) == [i \in 1..Len(s) |-> s[Len(s) + 1 - i]]

\* get_track(hex, limit) on a file that has the table: the lists it can
\* return
get_track(P, hex, limit) ==
    {reversed([k \in 1..Len(l) |-> track_dict(P[l[k]])]) :
        l \in {limited(o, limit) : o \in orders_desc(P, matching(P, hex))}}

InitTrack ==
    /\ schema \in {{}, OTHER_TABLES}
    /\ flight_positions \in IF "flight_positions" \in schema THEN TrackTables ELSE {<<>>}
    /\ track_hex \in TrackHexes
    /\ track_limit \in TrackLimits
    /\ track_result = NoResult
    /\ IdleDecoder
    /\ IdleLaunch
    /\ pc = "connect"
    /\ pending = 0
    /\ processed = 0
    /\ active_sessions = EmptyDict
    /\ aircraft_sessions = <<>>
    /\ adsb_messages = <<>>
    /\ flights = <<>>
    /\ smessages = <<>>
    /\ clock = ClockStart
    /\ fields = NoResult
    /\ delivered = <<>>
    /\ buffer = <<>>
    /\ handed = <<>>

\* GET /api/track/{hex}?limit=...
GetTrack ==
    /\ track_result = NoResult
    /\ IF "flight_positions" \in schema
       THEN \E rows \in get_track(flight_positions, track_hex, track_limit) :
               track_result' = [status |-> "returned", rows |-> rows]
       ELSE track_result' = [status |-> "raised", error |-> "OperationalError"]
    /\ UNCHANGED <<track_hex, track_limit, loopVars, sessionVars, flightVars,
                   frameVars, decoderVars, launchVars>>

NextTrack == GetTrack

SpecTrack == InitTrack /\ [][NextTrack]_vars

(***************************************************************************)
(* launcher.py: main gathers one run_process coroutine per entry of        *)
(* PROCESSES.  A coroutine is at "start" (top of `while True`, lines       *)
(* 38-45), "read" (the readline loop, 47-51), "wait" (await                *)
(* process.wait(), 53) or "sleep" (await asyncio.sleep(3), 58-59); "done"  *)
(* would be a coroutine that has returned.  The child processes exit when  *)
(* they will, with any code.                                               *)
(***************************************************************************)
PROCESSES ==
    << [name |-> "ADSB Listener", cmd |-> "python scripts/parser.py"],
       [name |-> "Flight API",    cmd |-> "python scripts/flights_api.py"],
       [name |-> "Dump1090",      cmd |-> "scripts/dump1090/dump1090 --net"] >>

Procs == DOMAIN PROCESSES

ExitCodes == {0, 1}

\* `process` before the first child; a child is known by the run it is of
NoChild == [state |-> "none", cmd |-> "", run |-> 0, returncode |-> 0]

\* mutant of after_exit: the coroutine returns when its child exits with 0
after_exit_clean(returncode) == IF returncode = 0 THEN "done" ELSE "sleep"

\* where run_process goes once process.wait() returns: lines 54, 58, 59,
\* whatever the exit code
after_exit(returncode) == "sleep"

\* where run_process goes when the try block raises: except Exception,
\* lines 55-59
after_exception == "sleep"

InitLauncher ==
    /\ lpc = [p \in Procs |-> "start"]
    /\ child = [p \in Procs |-> NoChild]
    /\ starts = [p \in Procs |-> 0]
    /\ IdleDecoder
    /\ IdleTrack
    /\ pc = "connect"
    /\ pending = 0
    /\ processed = 0
    /\ active_sessions = EmptyDict
    /\ aircraft_sessions = <<>>
    /\ adsb_messages = <<>>
    /\ flights = <<>>
    /\ flight_positions = <<>>
    /\ smessages = <<>>
    /\ clock = ClockStart
    /\ schema = {}
    /\ fields = NoResult
    /\ delivered = <<>>
    /\ buffer = <<>>
    /\ handed = <<>>

\* asyncio.create_subprocess_exec(*cmd, ...) returns the new child
Spawn(p) ==
    /\ lpc[p] = "start"
    /\ starts[p] < MaxStarts
    /\ child' = [child EXCEPT ![p] = [state |-> "running", cmd |-> PROCESSES[p].cmd,
                                      run |-> starts[p] + 1, returncode |-> 0]]
    /\ starts' = [starts EXCEPT ![p] = @ + 1]
    /\ lpc' = [lpc EXCEPT ![p] = "read"]
    /\ UNCHANGED <<loopVars, sessionVars, flightVars, frameVars, decoderVars, trackVars>>

\* create_subprocess_exec raises (no such file, no permission)
SpawnFail(p) ==
    /\ lpc[p] = "start"
    /\ lpc' = [lpc EXCEPT ![p] = after_exception]
    /\ UNCHANGED <<child, starts, loopVars, sessionVars, flightVars, frameVars,
                   decoderVars, trackVars>>

\* the child exits with some code
ChildExit(p, code) ==
    /\ child[p].state = "running"
    /\ child' = [child EXCEPT ![p] = [@ EXCEPT !.state = "exited", !.returncode = code]]
    /\ UNCHANGED <<lpc, starts, loopVars, sessionVars, flightVars, frameVars,
                   decoderVars, trackVars>>

\* readline returns a line that line.decode() cannot decode: the exception
\* is caught at line 55 while the child goes on running
ReadUndecodable(p) ==
    /\ lpc[p] = "read"
    /\ lpc' = [lpc EXCEPT ![p] = after_exception]
    /\ UNCHANGED <<child, starts, loopVars, sessionVars, flightVars, frameVars,
                   decoderVars, trackVars>>

\* readline returns b"": the child has closed its output (at the latest
\* when it exits); break
ReadEOF(p) ==
    /\ lpc[p] = "read"
    /\ lpc' = [lpc EXCEPT ![p] = "wait"]
    /\ UNCHANGED <<child, starts, loopVars, sessionVars, flightVars, frameVars,
                   decoderVars, trackVars>>

\* await process.wait() returns: the child has exited
Wait(p) ==
    /\ lpc[p] = "wait"
    /\ child[p].state = "exited"
    /\ lpc' = [lpc EXCEPT ![p] = after_exit(child[p].returncode)]
    /\ UNCHANGED <<child, starts, loopVars, sessionVars, flightVars, frameVars,
                   decoderVars, trackVars>>

\* await asyncio.sleep(3) returns; the loop goes round
SleepDone(p) ==
    /\ lpc[p] = "sleep"
    /\ lpc' = [lpc EXCEPT ![p] = "start"]
    /\ UNCHANGED <<child, starts, loopVars, sessionVars, flightVars, frameVars,
                   decoderVars, trackVars>>

NextLauncher ==
    \E p \in Procs :
        \/ Spawn(p)
        \/ SpawnFail(p)
        \/ \E code \in ExitCodes : ChildExit(p, code)
        \/ ReadUndecodable(p)
        \/ ReadEOF(p)
        \/ Wait(p)
        \/ SleepDone(p)

SpecLauncher == InitLauncher /\ [][NextLauncher]_vars

(***************************************************************************)
(* Claims on the session tracker (SpecSession).  They are stated on every  *)
(* reachable state in which the loop is about to process a record, for     *)
(* every record of the feed that may be the one, every wall clock reading  *)
(* that matters to it and every store fault.                               *)
(***************************************************************************)
S_ == aircraft_sessions
A_ == active_sessions
M_ == adsb_messages

\* the callsign and the timestamp the tracker sees in a record
callsign_of(line) == strip(ParsedFeed[line].callsign)
ts_of(line, now)  == ts_iso_of(ParsedFeed[line], now)

\* the session rows with one row's last_seen set
Touched(S, sid, T) ==
    [i \in 1..Len(S) |-> IF S[i].session_id = sid
                         THEN [session_id |-> S[i].session_id, callsign |-> S[i].callsign,
                               icao_hex |-> S[i].icao_hex, first_seen |-> S[i].first_seen,
                               last_seen |-> T]
                         ELSE S[i]]

\* the message log grew by one row, of session sid at time T
Logged(r, sid, T) ==
    /\ Len(r.M) = Len(M_) + 1
    /\ SubSeq(r.M, 1, Len(M_)) = M_
    /\ r.M[Len(r.M)].session_id = sid
    /\ r.M[Len(r.M)].ts = T

\* the index names, for each callsign, one row of that callsign, the newest
OneOpenSession ==
    \A c \in DOMAIN A_ :
        /\ Cardinality({i \in 1..Len(S_) : S_[i].session_id = A_[c][1]}) = 1
        /\ \A i \in 1..Len(S_) :
              S_[i].callsign = c => S_[i].session_id <= A_[c][1]
        /\ \E i \in 1..Len(S_) : S_[i].session_id = A_[c][1] /\ S_[i].callsign = c

\* C1: a record of callsign C with timestamp T, where C has an open session
\* (sid, L) and T - L <= SESSION_TIMEOUT_SEC, creates no session row and
\* keeps C's session id; unless the store raises, that session's last_seen
\* becomes T (every other row and index entry as before) and the record is
\* logged under sid; and each callsign has one open session, its newest.
C1_SessionContinuation ==
    /\ OneOpenSession
    /\ pc = "lines" =>
       \A line \in SessionFeed : \A now \in NowFor(line), fault \in Faults :
          LET c == callsign_of(line)
              T == ts_of(line, now)
              r == session_step(line, now, fault)
          IN  (c \in DOMAIN A_ /\ T - A_[c][2] <= 1200) =>
                 LET sid == A_[c][1]
                 IN  /\ Len(r.S) = Len(S_)
                     /\ DOMAIN r.A = DOMAIN A_
                     /\ r.A[c][1] = sid
                     /\ fault = "session" => r.S = S_ /\ r.A = A_ /\ r.M = M_
                     /\ fault # "session" =>
                           /\ r.S = Touched(S_, sid, T)
                           /\ r.A = [k \in DOMAIN A_ |-> IF k = c THEN <<sid, T>> ELSE A_[k]]
                     /\ fault = "none" => Logged(r, sid, T)

\* a session was extended: two logged records of one session at different times
C1_Witness ==
    \E i, j \in 1..Len(M_) :
        /\ i < j
        /\ M_[i].session_id = M_[j].session_id
        /\ M_[j].ts > M_[i].ts
        /\ \E k \in 1..Len(S_) :
              /\ S_[k].session_id = M_[j].session_id
              /\ S_[k].first_seen = M_[i].ts
              /\ S_[k].last_seen = M_[j].ts

\* C2: a record whose timestamp is exactly SESSION_TIMEOUT_SEC after the
\* last-seen of its callsign's session is given that same session id.
C2_BoundaryInclusive ==
    pc = "lines" =>
    \A line \in SessionFeed : \A now \in NowFor(line) :
        LET c == callsign_of(line)
            T == ts_of(line, now)
            r == session_step(line, now, "none")
        IN  (c \in DOMAIN A_ /\ T - A_[c][2] = 1200) =>
               /\ r.M # M_
               /\ r.M[Len(r.M)].session_id = A_[c][1]

\* two records in a row, 1200 s apart, logged under one session id
C2_Witness ==
    \E i \in 1..Len(M_) - 1 :
        /\ strip(M_[i].callsign) = strip(M_[i + 1].callsign)
        /\ M_[i + 1].ts - M_[i].ts = 1200
        /\ M_[i + 1].session_id = M_[i].session_id

\* C3: a record of non-blank callsign C with timestamp T, where C has no
\* session or T - L > SESSION_TIMEOUT_SEC, appends (unless the store raises)
\* one session row with first_seen = last_seen = T and an id no earlier row
\* has, leaves every earlier row as it was, and sets the index entry of C
\* (alone) to (new id, T); the record is logged under the new id.
C3_SessionSplit ==
    pc = "lines" =>
    \A line \in SessionFeed : \A now \in NowFor(line), fault \in Faults :
        LET c == callsign_of(line)
            T == ts_of(line, now)
            r == session_step(line, now, fault)
        IN  (c # "" /\ (c \notin DOMAIN A_ \/ T - A_[c][2] > 1200)) =>
               /\ fault = "session" => r.S = S_ /\ r.A = A_ /\ r.M = M_
               /\ fault # "session" =>
                     LET new == r.S[Len(r.S)]
                     IN  /\ Len(r.S) = Len(S_) + 1
                         /\ SubSeq(r.S, 1, Len(S_)) = S_
                         /\ new.callsign = c
                         /\ new.first_seen = T
                         /\ new.last_seen = T
                         /\ \A i \in 1..Len(S_) : S_[i].session_id # new.session_id
                         /\ DOMAIN r.A = DOMAIN A_ \cup {c}
                         /\ r.A[c] = <<new.session_id, T>>
                         /\ \A k \in DOMAIN A_ \ {c} : r.A[k] = A_[k]
                         /\ fault = "none" => Logged(r, new.session_id, T)

\* a callsign came back after more than the timeout and got a second session
C3_Witness ==
    \E i, j \in 1..Len(S_) :
        /\ i < j
        /\ S_[i].callsign = S_[j].callsign
        /\ S_[i].session_id # S_[j].session_id
        /\ S_[j].first_seen - S_[i].last_seen > 1200
        /\ S_[j].first_seen = S_[j].last_seen
        /\ A_[S_[j].callsign] = <<S_[j].session_id, S_[j].last_seen>>
        /\ \E m \in 1..Len(M_) : M_[m].session_id = S_[j].session_id

(***************************************************************************)
(* Claims on the flights store (SpecFlights), stated like those on the     *)
(* session tracker.                                                        *)
(***************************************************************************)
\* the text columns of the aircraft state, update_map of parser.py:233-239
UPDATE_COLUMNS == {"callsign", "alt", "gspeed", "heading", "lat", "lon", "grounded"}

(***************************************************************************)
(* The store as the next record finds it.                                  *)
(***************************************************************************)
F_ == flights
P_ == flight_positions

\* main is about to take the next record of the data it read
AtFlightRecord == pc = "lines" /\ pending > 0 /\ processed < MaxFlightRecords

\* the loop stores a record: it is not blank and its message type is MSG
is_stored(raw) == ~(Len(raw) = 1 /\ strip(raw[1]) = "") /\ raw[1] = "MSG"

\* the field of a record at a 0-indexed position of the wire format
wire(raw, i) == IF i + 1 <= Len(raw) THEN raw[i + 1] ELSE ""

\* the aircraft identifier of a record, letter case and padding aside
ident(raw) == upper(strip(wire(raw, 4)))

\* the wire position of each column of the partial update
wire_position(col) ==
    CASE col = "callsign" -> 10 [] col = "alt" -> 11 [] col = "gspeed" -> 12
      [] col = "heading" -> 13 [] col = "lat" -> 14 [] col = "lon" -> 15
      [] col = "grounded" -> 21

\* the value a stored record gives a column of the partial update: blank
\* when it is empty or whitespace only
given(raw, col) == wire(raw, wire_position(col))

is_blank_field(v) == strip(v) = ""

\* C4: when a MSG record of an aircraft identifier is followed by another of
\* the same identifier, the aircraft then has a flights row in which each of
\* callsign, alt, gspeed, heading, lat, lon and grounded is the second
\* record's field where that is not blank and what the row held after the
\* first record where it is blank.
C4_PartialUpdate ==
    AtFlightRecord =>
    \A first \in FlightFeed, raw \in FlightFeed :
        (is_stored(first) /\ is_stored(raw) /\ ident(first) = ident(raw)) =>
        \A tick1 \in ClockTicks, tick2 \in ClockTicks :
            LET a == flights_step(first, tick1)
                b == flights_body(raw, tick2, a.F, a.P, a.SM, a.clock, a.fields)
            IN  \E i \in 1..Len(a.F) :
                   /\ a.F[i].hex = ident(raw)
                   /\ Len(b.F) = Len(a.F)
                   /\ b.F[i].hex = ident(raw)
                   /\ \A col \in UPDATE_COLUMNS :
                         b.F[i][col] = IF is_blank_field(given(raw, col))
                                       THEN a.F[i][col]
                                       ELSE given(raw, col)

\* C5: a record the loop stores appends exactly one flight_positions row
\* (its identifier, lat, lon, alt, heading, gspeed) if both its latitude and
\* its longitude are non-blank and no row otherwise; no step removes or
\* changes a row.
C5_PositionIffLatLon ==
    AtFlightRecord =>
    \A raw \in FlightFeed, tick \in ClockTicks :
        LET r == flights_step(raw, tick)
        IN  IF /\ is_stored(raw)
               /\ ~is_blank_field(wire(raw, 14))
               /\ ~is_blank_field(wire(raw, 15))
            THEN /\ Len(r.P) = Len(P_) + 1
                 /\ SubSeq(r.P, 1, Len(P_)) = P_
                 /\ r.P[Len(r.P)].hex = ident(raw)
                 /\ r.P[Len(r.P)].lat = wire(raw, 14)
                 /\ r.P[Len(r.P)].lon = wire(raw, 15)
                 /\ r.P[Len(r.P)].alt = wire(raw, 11)
                 /\ r.P[Len(r.P)].heading = wire(raw, 13)
                 /\ r.P[Len(r.P)].gspeed = wire(raw, 12)
            ELSE r.P = P_

\* C6: no two flights rows have the same aircraft identifier, letter case
\* aside; a stored record whose identifier has no row adds one row, one
\* whose identifier has a row adds none, and no step removes a row or
\* changes its id or identifier.
C6_OneRowPerIdentifier ==
    /\ \A i, j \in 1..Len(F_) : i # j => upper(F_[i].hex) # upper(F_[j].hex)
    /\ AtFlightRecord =>
       \A raw \in FlightFeed, tick \in ClockTicks :
          LET r      == flights_step(raw, tick)
              stored == is_stored(raw)
              known  == \E i \in 1..Len(F_) : upper(F_[i].hex) = ident(raw)
          IN  /\ Len(r.F) = IF stored /\ ~known THEN Len(F_) + 1 ELSE Len(F_)
              /\ \A i \in 1..Len(F_) : r.F[i].id = F_[i].id /\ r.F[i].hex = F_[i].hex
              /\ stored => \E i \in 1..Len(r.F) : r.F[i].hex = ident(raw)

\* what the stashed revision does instead: no record, whatever it holds,
\* changes flights, flight_positions or smessages, and every MSG record
\* ends the connection
FlightsNeverStored ==
    /\ flights = <<>> /\ flight_positions = <<>> /\ smessages = <<>>
    /\ AtFlightRecord =>
       \A raw \in FlightFeed, tick \in ClockTicks :
          LET r == flights_step(raw, tick)
          IN  /\ r.F = F_ /\ r.P = P_ /\ r.SM = smessages
              /\ is_stored(raw) <=> r.raised # "none"

(***************************************************************************)
(* Claims on framing, the connection loop and error handling.              *)
(***************************************************************************)
\* C7: however the byte stream is cut into network reads, the records
\* handed to the decoder are those of the same bytes delivered in one read
\* (a partial record at the end of a read is kept for the next read, not
\* handed over).  Stated of the stashed reader (SpecFramingStashed).
C7_FramingCorrect == handed = frame_stashed(delivered)

\* the same statement of the upstream reader (SpecFramingUpstream), which
\* keeps the partial record in `buffer`
FramingCorrectUpstream ==
    /\ handed = take_lines(delivered).lines
    /\ buffer = take_lines(delivered).rest

\* C8: every new connect attempt that follows the end of a connection or a
\* failed attempt comes after the 3 second sleep (and the loop has no exit).
C8_ReconnectAfterDelay ==
    [][(pc' = "connect" /\ pc \notin {"connect", "start"}) => pc = "sleep"]_vars

\* C9: the store writes of one record are all there or none is: a step that
\* changes aircraft_sessions or adsb_messages appends the record's message
\* row and leaves its session with that row's timestamp as last_seen.
C9_RecordAtomic ==
    [][(aircraft_sessions' # aircraft_sessions \/ adsb_messages' # adsb_messages) =>
          /\ Len(adsb_messages') = Len(adsb_messages) + 1
          /\ \E k \in 1..Len(aircraft_sessions') :
                /\ aircraft_sessions'[k].session_id =
                      adsb_messages'[Len(adsb_messages')].session_id
                /\ aircraft_sessions'[k].last_seen =
                      adsb_messages'[Len(adsb_messages')].ts]_vars

\* C10: whatever happens to a record, the loop stays on the connection and
\* goes on with the records that remain of the data already received.
C10_ErrorIsolation ==
    [][pc = "lines" => /\ pending' = pending - 1
                       /\ pc' = IF pending' = 0 THEN "recv" ELSE "lines"]_vars

(***************************************************************************)
(* Claims on the message-type filter and the decoder.                      *)
(***************************************************************************)
\* C11: a record whose message type (field 0) is not "MSG" changes no
\* table and not the session index.  Stated of the upstream revision
\* (SpecSession), whose tables are the sessions and the message log.
C11_MessageTypeFilter ==
    pc = "lines" =>
    \A line \in SessionFeed : \A now \in NowFor(line), fault \in Faults :
        LET r == session_step(line, now, fault)
        IN  ParsedFeed[line].mtype # "MSG" =>
               r.S = S_ /\ r.A = A_ /\ r.M = M_

\* the same statement of the stashed revision (SpecFlights), whose tables
\* are the aircraft state, the position history and smessages
MessageTypeFilterStashed ==
    AtFlightRecord =>
    \A raw \in FlightFeed, tick \in ClockTicks :
        LET r == flights_step(raw, tick)
        IN  split_stripped(raw)[1] # "MSG" =>
               r.F = F_ /\ r.P = P_ /\ r.SM = smessages /\ r.raised = "none"

\* the field of a record at a 0-indexed position, as line.strip().split(",")
\* cuts it; blank when the record has no such field
field(raw, i) == wire(split_stripped(raw), i)

\* the statement of C12 for the fields f decoded from the record raw
AtWirePositions(f, raw) ==
    /\ f.mtype    = field(raw, 0)
    /\ f.ttype    = field(raw, 1)
    /\ f.hex      = upper(strip(field(raw, 4)))
    /\ f.flight   = field(raw, 5)
    /\ f.date     = field(raw, 6)
    /\ f.time     = field(raw, 7)
    /\ f.callsign = field(raw, 10)
    /\ f.alt      = field(raw, 11)
    /\ f.gspeed   = field(raw, 12)
    /\ f.heading  = field(raw, 13)
    /\ f.lat      = field(raw, 14)
    /\ f.lon      = field(raw, 15)
    /\ f.grounded = field(raw, 21)

\* C12: the decoded fields are those at the positions of the wire protocol:
\* message type 0, transmission type 1, aircraft identifier 4 (uppercased),
\* flight 5, date 6, time 7, callsign 10, altitude 11, ground speed 12,
\* heading 13, latitude 14, longitude 15, grounded flag 21.  Stated of
\* both decoders (SpecDecoder).
C12_DecoderPositions ==
    decoded.status = "returned" => AtWirePositions(decoded.fields, record)

\* the same statement of the stashed decoder alone
DecoderPositionsStashed ==
    (decoded.status # "none" /\ decoded.variant = "stashed") =>
        /\ decoded.status = "returned"
        /\ AtWirePositions(decoded.fields, record)

\* the names each decoder returns and the position it reads each from
UPSTREAM_NAMES == Range(FIELD_NAMES) \cup {"datel", "timel"}

STASHED_NAMES ==
    {"mtype", "ttype", "hex", "timestamp", "flight", "date", "time", "callsign",
     "alt", "gspeed", "heading", "lat", "lon", "grounded"}

upstream_position(name) ==
    IF name = "datel" THEN FieldIndex["date"] - 1
    ELSE IF name = "timel" THEN FieldIndex["time"] - 1
    ELSE FieldIndex[name] - 1

stashed_position(name) ==
    CASE name = "mtype" -> 0 [] name = "ttype" -> 1 [] name = "hex" -> 4
      [] name = "flight" -> 5 [] name = "date" -> 6 [] name = "time" -> 7
      [] OTHER -> wire_position(name)

\* a record without the fields past position 21
Prefix22(raw) == IF Len(raw) > 22 THEN SubSeq(raw, 1, 22) ELSE raw

\* C13: for a record of any number of fields parse_message returns (it
\* never raises) a result with every named field; a field whose position is
\* beyond the supplied count is the blank string, and the fields past
\* position 21 change nothing.  Stated of both decoders, each with the
\* positions it reads.
C13_DecoderTotality ==
    decoded.status # "none" =>
        /\ decoded.status = "returned"
        /\ LET f     == decoded.fields
               parts == split_stripped(record)
           IN  IF decoded.variant = "upstream"
               THEN /\ DOMAIN f = UPSTREAM_NAMES
                    /\ \A name \in UPSTREAM_NAMES :
                          upstream_position(name) >= Len(parts) => f[name] = ""
                    /\ f = parse_message_upstream(Prefix22(record))
               ELSE /\ DOMAIN f = STASHED_NAMES
                    /\ \A name \in STASHED_NAMES \ {"timestamp"} :
                          stashed_position(name) >= Len(parts) => f[name] = ""
                    /\ f = parse_message_stashed(Prefix22(record), f.timestamp)

\* a record cut after the aircraft identifier was decoded: the identifier
\* is there, every later field is blank
C13_Witness ==
    /\ Len(record) = 5
    /\ decoded.status = "returned"
    /\ decoded.variant = "stashed"
    /\ decoded.fields.hex = "4CA7B5"
    /\ decoded.fields.callsign = ""
    /\ decoded.fields.grounded = ""

(***************************************************************************)
(* Further claims on the session tracker (SpecSession).                    *)
(***************************************************************************)
\* C14: a record whose decoded callsign is blank (empty or whitespace only)
\* is assigned to no session: it adds no session row, changes no row (so no
\* last-seen) and leaves the session index as it was.
C14_BlankCallsign ==
    pc = "lines" =>
    \A line \in SessionFeed : \A now \in NowFor(line), fault \in Faults :
        LET r == session_step(line, now, fault)
        IN  callsign_of(line) = "" =>
               r.S = S_ /\ r.A = A_ /\ ~r.raised

\* aircraft 4CA7B5 has its session DAL45 from the one record logged, and a
\* second record taken from the feed left that session, the index and the
\* log as they were (the record of 4CA7B5 with callsign " " is such a one)
C14_Witness ==
    /\ processed >= 2
    /\ Len(S_) = 1
    /\ S_[1].callsign = "DAL45"
    /\ S_[1].icao_hex = "4CA7B5"
    /\ S_[1].last_seen = S_[1].first_seen
    /\ DOMAIN A_ = {"DAL45"}
    /\ A_["DAL45"] = <<S_[1].session_id, S_[1].last_seen>>
    /\ Len(M_) = 1

(***************************************************************************)
(* Claim on the track query (SpecTrack).                                   *)
(***************************************************************************)
\* what get_track returned is min(limit, count) samples, each a different
\* sample of the identifier asked for, none of them older than a sample of
\* the identifier left out, in ascending order of timestamp
is_track(R, P, hex, limit) ==
    LET own   == {i \in DOMAIN P : P[i].hex = hex}
        count == Cardinality(own)
        taken == {i \in DOMAIN P : \E a \in DOMAIN R : R[a].lat = P[i].lat}
    IN  /\ Len(R) = IF limit < count THEN limit ELSE count
        /\ \A a, b \in DOMAIN R : a < b => R[a].timestamp <= R[b].timestamp
        /\ \A a, b \in DOMAIN R : a # b => R[a].lat # R[b].lat
        /\ taken \subseteq own
        /\ \A a \in DOMAIN R : \E i \in own :
              /\ R[a].lat = P[i].lat
              /\ R[a] = [lat |-> P[i].lat, lon |-> P[i].lon,
                         heading |-> P[i].heading, timestamp |-> P[i].timestamp]
        /\ \A i \in taken, j \in own \ taken : P[i].timestamp >= P[j].timestamp

\* C15: for every identifier and every limit N, a call of get_track returns,
\* and what it returns is exactly the min(N, count) position samples of the
\* identifier with the largest timestamps, oldest first, none of them a
\* sample of another identifier.
C15_TrackQuery ==
    track_result.status # "none" =>
        /\ track_result.status = "returned"
        /\ is_track(track_result.rows, flight_positions, track_hex, track_limit)

\* what get_track does instead: it raises where the table is missing; where
\* the table is there a limit of 0 or more gives the track, and a negative
\* limit gives every sample of the identifier
TrackQueryOnTable ==
    /\ track_result.status = "raised" <=>
           (track_result.status # "none" /\ "flight_positions" \notin schema)
    /\ track_result.status = "returned" =>
           is_track(track_result.rows, flight_positions, track_hex,
                    IF track_limit < 0 THEN Len(flight_positions) ELSE track_limit)

\* C16: session rows are only created and touched: no step removes a row,
\* and no step changes the session id, callsign, aircraft identifier or
\* first-seen of a row; last-seen is all that changes.
C16_SessionsOnlyTouched ==
    [][\A i \in 1..Len(aircraft_sessions) :
          /\ i <= Len(aircraft_sessions')
          /\ aircraft_sessions'[i].session_id = aircraft_sessions[i].session_id
          /\ aircraft_sessions'[i].callsign   = aircraft_sessions[i].callsign
          /\ aircraft_sessions'[i].icao_hex   = aircraft_sessions[i].icao_hex
          /\ aircraft_sessions'[i].first_seen = aircraft_sessions[i].first_seen]_vars

\* a session that was touched (its last-seen moved), followed by a later
\* session of the same callsign: the first row is still there
C16_Witness ==
    \E i, j \in 1..Len(S_) :
        /\ i < j
        /\ S_[i].callsign = S_[j].callsign
        /\ S_[i].last_seen # S_[i].first_seen
        /\ S_[i].session_id = i
        /\ S_[j].session_id = j

\* C17 as claimed: after every step every session row has first-seen <=
\* last-seen, and no step decreases a session's last-seen, whatever the
\* order of the record timestamps.
C17_TimeOrder ==
    [][/\ \A i \in 1..Len(aircraft_sessions') :
             aircraft_sessions'[i].first_seen <= aircraft_sessions'[i].last_seen
       /\ \A i \in 1..Len(aircraft_sessions) :
             aircraft_sessions'[i].last_seen >= aircraft_sessions[i].last_seen]_vars

\* C17 as amended: a session row is created with first-seen = last-seen =
\* T and its last-seen is afterwards only ever set to the timestamp of a
\* record; a record whose timestamp T is not earlier than the last-seen L of
\* its callsign's open session decreases no last-seen and keeps first-seen
\* <= last-seen in every row that had it; a record out of timestamp order
\* (T earlier than L) is assigned to the open session and sets its
\* last-seen back to T.
C17_TimeOrderAmended ==
    pc = "lines" =>
    \A line \in SessionFeed : \A now \in NowFor(line), fault \in Faults :
        LET c == callsign_of(line)
            T == ts_of(line, now)
            r == session_step(line, now, fault)
        IN  /\ Len(r.S) >= Len(S_)
            /\ \A i \in 1..Len(r.S) :
                  i > Len(S_) => r.S[i].first_seen = T /\ r.S[i].last_seen = T
            /\ \A i \in 1..Len(S_) :
                  /\ r.S[i].first_seen = S_[i].first_seen
                  /\ r.S[i].last_seen \in {S_[i].last_seen, T}
            /\ (c \in DOMAIN A_ => T >= A_[c][2]) =>
                  \A i \in 1..Len(S_) :
                      /\ r.S[i].last_seen >= S_[i].last_seen
                      /\ S_[i].first_seen <= S_[i].last_seen =>
                             r.S[i].first_seen <= r.S[i].last_seen
            /\ (c \in DOMAIN A_ /\ T < A_[c][2] /\ fault # "session") =>
                  \E i \in 1..Len(S_) :
                      /\ S_[i].session_id = A_[c][1]
                      /\ r.S[i].session_id = A_[c][1]
                      /\ r.S[i].last_seen = T
                      /\ r.S[i].last_seen < S_[i].last_seen
                      /\ Len(r.S) = Len(S_)

\* a record out of timestamp order was assigned to its callsign's session:
\* the session's last-seen is earlier than its first-seen, and the record
\* is logged under the session with that earlier timestamp
C17_Witness ==
    \E i \in 1..Len(S_) :
        /\ S_[i].last_seen < S_[i].first_seen
        /\ \E m \in 1..Len(M_) :
              /\ M_[m].session_id = S_[i].session_id
              /\ M_[m].ts = S_[i].last_seen
        /\ \E m \in 1..Len(M_) :
              /\ M_[m].session_id = S_[i].session_id
              /\ M_[m].ts = S_[i].first_seen

\* C18: every entry callsign -> (session id, last-seen) of active_sessions
\* names an existing session row of that callsign whose stored last-seen is
\* the indexed one, and that row is the callsign's most recently created;
\* no record, and no store failure, removes an entry.
C18_IndexStoreAgreement ==
    /\ \A c \in DOMAIN A_ :
          \E i \in 1..Len(S_) :
              /\ S_[i].session_id = A_[c][1]
              /\ S_[i].callsign = c
              /\ S_[i].last_seen = A_[c][2]
              /\ \A j \in 1..Len(S_) : S_[j].callsign = c => j <= i
              /\ \A j \in 1..Len(S_) : S_[j].session_id = A_[c][1] => j = i
    /\ pc = "lines" =>
       \A line \in SessionFeed : \A now \in NowFor(line), fault \in Faults :
          DOMAIN A_ \subseteq DOMAIN session_step(line, now, fault).A

\* two callsigns are indexed; one of them has two sessions and its entry
\* names the later one
C18_Witness ==
    \E c, d \in DOMAIN A_ :
        /\ c # d
        /\ \E i, j \in 1..Len(S_) :
              /\ i < j
              /\ S_[i].callsign = c
              /\ S_[j].callsign = c
              /\ A_[c] = <<S_[j].session_id, S_[j].last_seen>>
              /\ A_[c][1] # S_[i].session_id

\* the filter of insert_message drops the record
is_filtered(line) ==
    ParsedFeed[line].flight = "111111" /\ strip(ParsedFeed[line].callsign) = ""

\* every message row has a session whose first-seen and last-seen enclose
\* its timestamp
Enclosed(M, S) ==
    \A m \in 1..Len(M) : \E i \in 1..Len(S) :
        /\ S[i].session_id = M[m].session_id
        /\ S[i].first_seen <= M[m].ts
        /\ M[m].ts <= S[i].last_seen

\* C19 as claimed: every row of the message log references an existing
\* session, has the same callsign as that session and a timestamp between
\* the session's first-seen and last-seen; a record dropped by the filter
\* or without callsign adds no message row.
C19_MessageLogIntegrity ==
    /\ \A m \in 1..Len(M_) : \E i \in 1..Len(S_) :
          /\ S_[i].session_id = M_[m].session_id
          /\ S_[i].callsign = M_[m].callsign
          /\ S_[i].first_seen <= M_[m].ts
          /\ M_[m].ts <= S_[i].last_seen
    /\ pc = "lines" =>
       \A line \in SessionFeed : \A now \in NowFor(line), fault \in Faults :
          (is_filtered(line) \/ callsign_of(line) = "") =>
              session_step(line, now, fault).M = M_

\* C19 as amended: every row of the message log references an existing
\* session whose callsign is the row's callsign stripped of surrounding
\* whitespace; a row is appended with the timestamp T of its record, which
\* is then the last-seen of its session; first-seen <= ts <= last-seen stays
\* true of every row as long as records arrive with T not earlier than the
\* last-seen of their callsign's open session; a record dropped by the
\* filter or without callsign adds no message row.
C19_MessageLogIntegrityAmended ==
    /\ \A m \in 1..Len(M_) : \E i \in 1..Len(S_) :
          /\ S_[i].session_id = M_[m].session_id
          /\ S_[i].callsign = strip(M_[m].callsign)
    /\ pc = "lines" =>
       \A line \in SessionFeed : \A now \in NowFor(line), fault \in Faults :
          LET c == callsign_of(line)
              T == ts_of(line, now)
              r == session_step(line, now, fault)
          IN  /\ (is_filtered(line) \/ c = "") => r.M = M_
              /\ r.M # M_ =>
                    /\ Len(r.M) = Len(M_) + 1
                    /\ SubSeq(r.M, 1, Len(M_)) = M_
                    /\ r.M[Len(r.M)].ts = T
                    /\ \E i \in 1..Len(r.S) :
                          /\ r.S[i].session_id = r.M[Len(r.M)].session_id
                          /\ r.S[i].last_seen = T
              /\ ( /\ c \in DOMAIN A_ => T >= A_[c][2]
                   /\ Enclosed(M_, S_)
                   /\ \A i \in 1..Len(S_) : S_[i].first_seen <= S_[i].last_seen )
                 => Enclosed(r.M, r.S)

\* a row logged with the padded callsign "UAL123  " under the session of
\* "UAL123", whose last-seen a later record out of timestamp order has
\* moved to before the row's timestamp
C19_Witness ==
    \E m \in 1..Len(M_) : \E i \in 1..Len(S_) :
        /\ S_[i].session_id = M_[m].session_id
        /\ M_[m].callsign = "UAL123  "
        /\ S_[i].callsign = "UAL123"
        /\ M_[m].ts > S_[i].last_seen

(***************************************************************************)
(* Claim on the launcher (SpecLauncher).                                   *)
(***************************************************************************)
\* C20: for each supervised process run_process never returns; when the
\* child has exited (any exit code) or failed to start, the coroutine goes
\* to the 3 second sleep and only from there starts a child again, with the
\* same command; and a step of one supervised process (its child exiting,
\* crashing or being restarted) changes nothing of the other two.
C20_SupervisorRestart ==
    [][\A p \in Procs :
          /\ lpc'[p] # "done"
          /\ (lpc[p] = "wait" /\ lpc'[p] # "wait") =>
                 child[p].state = "exited" /\ lpc'[p] = "sleep"
          /\ (lpc[p] = "start" /\ lpc'[p] # "start" /\ child'[p] = child[p]) =>
                 lpc'[p] = "sleep"
          /\ (lpc'[p] = "start" /\ lpc[p] # "start") => lpc[p] = "sleep"
          /\ (child'[p] # child[p] /\ child'[p].state = "running") =>
                 /\ lpc[p] = "start"
                 /\ child'[p].cmd = PROCESSES[p].cmd
          /\ (lpc'[p] # lpc[p] \/ child'[p] # child[p] \/ starts'[p] # starts[p]) =>
                 \A q \in Procs \ {p} :
                     lpc'[q] = lpc[q] /\ child'[q] = child[q] /\ starts'[q] = starts[q]]_vars

\* the first child's first run exited with code 1 and it was started again
\* with the same command; the second process still reads its first child;
\* the third never started and is in its sleep
C20_Witness ==
    /\ starts[1] = 2
    /\ child[1].state = "running"
    /\ child[1].cmd = PROCESSES[1].cmd
    /\ lpc[1] = "read"
    /\ starts[2] = 1
    /\ lpc[2] = "read"
    /\ child[2].state = "running"
    /\ starts[3] = 0
    /\ lpc[3] = "sleep"

====
